---- MODULE Spec2Model ----
(***************************************************************************)
(* The task pipeline of the YouTube abstract bot: the Task/Result store    *)
(* (app/db/repositories.py), the four Celery stages and their failure      *)
(* handler (app/worker/tasks.py), the video source (app/services/          *)
(* youtube.py) and the ingress (app/bot/main.py).                          *)
(*                                                                         *)
(* A chain run is one Celery chain download -> transcribe -> summarize ->  *)
(* finalize for a task id.  Each stage is two steps: the part up to its    *)
(* first committed status change, and the rest (the engine call and the    *)
(* writes that follow it); steps of different runs interleave.             *)
(***************************************************************************)
EXTENDS Integers, Sequences, FiniteSets, TLC

VARIABLES
    tasks,      \* table tasks: id -> row (the domain is the set of rows)
    results,    \* table results: the set of its rows
    tmp,        \* /tmp/youtube_lmm: task id -> files of its directory
    runs,       \* the chain runs enqueued so far
    last,       \* what the latest step did outside the tables
    call,       \* a library function called on its own: arguments and result
    whisper     \* asr.py's _model and _model_lock, and the threads of one
                \* worker process inside get_whisper_model

vars == <<tasks, results, tmp, runs, last, call, whisper>>

-----------------------------------------------------------------------------
(* Bounds *)

MaxTaskId == 2
MaxRuns == 2

-----------------------------------------------------------------------------
(* Values *)

\* A nullable column or an optional argument: None, or one value.
None == <<>>
Some(x) == <<x>>

\* Text is a sequence of tokens: words, numbers, spaces and newlines.
Tok(k, n, w) == [tok |-> k, n |-> n, w |-> w]
Word(w) == Tok("word", 0, w)
Num(n) == Tok("num", n, "")
SP == Tok("sp", 0, "")
NL == Tok("nl", 0, "")

IsSpace(t) == t.tok \in {"sp", "nl"}

RECURSIVE LStrip(_)
LStrip(s) ==
    IF Len(s) = 0 THEN s
    ELSE IF IsSpace(Head(s)) THEN LStrip(Tail(s)) ELSE s

RECURSIVE RStrip(_)
RStrip(s) ==
    IF Len(s) = 0 THEN s
    ELSE IF IsSpace(s[Len(s)]) THEN RStrip(SubSeq(s, 1, Len(s) - 1)) ELSE s

\* str.strip(); the argument is bound to its value before it is stripped
Strip(s) == CHOOSE t \in {RStrip(LStrip(v)) : v \in {s}} : TRUE

\* A call of a function: its name, its arguments, and its result once it
\* has returned.
Call(fn, args) == [fn |-> fn, args |-> args, ret |-> None]

NoCall == Call("", <<>>)

\* dict.get(key, default) and dict[key] = value on a stage payload
Get(p, k, d) == IF k \in DOMAIN p THEN p[k] ELSE d
Put(p, k, v) == [x \in DOMAIN p \cup {k} |-> IF x = k THEN v ELSE p[x]]

-----------------------------------------------------------------------------
(* Configuration *)

max_video_minutes == 60
max_video_seconds == max_video_minutes * 60

max_retries_download == 3
max_retries_transcribe == 2
max_retries_summarize == 2

\* retry_kwargs of the stage's decorator; finalize_task declares none.
MaxRetries(stage) ==
    CASE stage = 1 -> max_retries_download
      [] stage = 2 -> max_retries_transcribe
      [] stage = 3 -> max_retries_summarize
      [] OTHER -> 0

\* autoretry_for of the stage's decorator; finalize_task declares none.
AutoRetryFor(stage) == IF stage \in 1..3 THEN {"RuntimeError"} ELSE {}

-----------------------------------------------------------------------------
(* Task store *)

Statuses ==
    {"created", "downloading", "downloaded", "transcribing", "transcribed",
     "summarizing", "completed", "failed"}

TERMINAL_STATUSES == {"completed", "failed"}

\* TaskRepository.create_task: the next autoincrement id, status created.
create_task(tk, user_id, video_url) ==
    LET id == Cardinality(DOMAIN tk) + 1
    IN  [x \in DOMAIN tk \cup {id} |->
            IF x = id
            THEN [user_id |-> user_id, video_url |-> video_url,
                  status |-> "created", error |-> None, language |-> None,
                  duration_sec |-> None]
            ELSE tk[x]]

\* set_status that assigns the three optional fields whatever was passed
SetStatus_AssignsAll(tk, task_id, status, error, language, duration_sec) ==
    IF task_id \notin DOMAIN tk THEN tk
    ELSE IF tk[task_id].status \in TERMINAL_STATUSES /\ status \notin TERMINAL_STATUSES
    THEN tk
    ELSE [tk EXCEPT ![task_id] =
            [@ EXCEPT !.status = status, !.error = error, !.language = language,
                      !.duration_sec = duration_sec]]

\* TaskRepository.set_status: the table after the call.  The call returns the
\* row, or None when there is no row (SetStatusFound).
SetStatus(tk, task_id, status, error, language, duration_sec) ==
    IF task_id \notin DOMAIN tk THEN tk
    ELSE IF tk[task_id].status \in TERMINAL_STATUSES /\ status \notin TERMINAL_STATUSES
    THEN tk
    ELSE [tk EXCEPT ![task_id] =
            [@ EXCEPT !.status = status,
                      !.error = IF error # None THEN error ELSE @,
                      !.language = IF language # None THEN language ELSE @,
                      !.duration_sec = IF duration_sec # None THEN duration_sec ELSE @]]

SetStatusFound(tk, task_id) == task_id \in DOMAIN tk

\* a row of table results
Result(task_id, transcript_text, summary, outline, subtitles_srt) ==
    [task_id |-> task_id, transcript_text |-> transcript_text, summary |-> summary,
     outline |-> outline, subtitles_srt |-> subtitles_srt]

\* session.get(Result, task_id): the rows with that primary key
GetResult(rs, task_id) == {row \in rs : row.task_id = task_id}

\* upsert_result as an unconditional INSERT
upsert_result_AlwaysInsert(rs, task_id, transcript_text, summary, outline, subtitles_srt) ==
    rs \cup {Result(task_id, transcript_text, summary, outline, subtitles_srt)}

\* upsert_result that builds the new row but never adds it to the session
upsert_result_NoAdd(rs, task_id, transcript_text, summary, outline, subtitles_srt) ==
    LET found == GetResult(rs, task_id)
        new == Result(task_id, transcript_text, summary, outline, subtitles_srt)
    IN  IF found # {}
        THEN (rs \ {CHOOSE row \in found : TRUE}) \cup {new}
        ELSE rs

\* TaskRepository.upsert_result: update the row found, or add one
upsert_result(rs, task_id, transcript_text, summary, outline, subtitles_srt) ==
    LET found == GetResult(rs, task_id)
        new == Result(task_id, transcript_text, summary, outline, subtitles_srt)
    IN  IF found # {}
        THEN (rs \ {CHOOSE row \in found : TRUE}) \cup {new}
        ELSE rs \cup {new}

-----------------------------------------------------------------------------
(* Temporary directories *)

\* Path.mkdir(parents=True, exist_ok=True) on the task's directory
mkdir(tm, task_id) ==
    IF task_id \in DOMAIN tm THEN tm
    ELSE [x \in DOMAIN tm \cup {task_id} |-> IF x = task_id THEN {} ELSE tm[x]]

\* a file written into the task's directory
write_file(tm, task_id, name) == [tm EXCEPT ![task_id] = @ \cup {name}]

\* shutil.rmtree(task_temp_dir(task_id), ignore_errors=True)
cleanup_temp_dir(tm, task_id) == [x \in DOMAIN tm \ {task_id} |-> tm[x]]

-----------------------------------------------------------------------------
(* Exceptions and notifications *)

\* An exception: its class and str(exc).
Exc(type, text) == [type |-> type, text |-> text]

\* the except clause of download_audio_task without YouTubeForbiddenError
RejectionTypes_NoForbidden == {"VideoTooLongError", "YouTubeInfoError"}

\* the classes download_audio_task catches as rejections
RejectionTypes == {"VideoTooLongError", "YouTubeForbiddenError", "YouTubeInfoError"}

\* One request posted to the notification sink (sendMessage or sendDocument).
Msg(chat_id, kind, task_id, text) ==
    [chat_id |-> chat_id, kind |-> kind, task_id |-> task_id, text |-> text]

\* requests.post returns, or raises (connection error, timeout).
SendOutcomes == {"sent", "raised"}

-----------------------------------------------------------------------------
(* Video source *)

\* The messages the ingress receives: who sent which URL.
Submissions ==
    { [user_id |-> 501, video_url |-> "https://youtu.be/lecture"],
      [user_id |-> 502, video_url |-> "https://youtu.be/marathon"] }

\* The metadata the video source reports for a URL.
fetch_video_info(video_url) ==
    [title |-> video_url,
     duration |-> IF video_url = "https://youtu.be/marathon"
                  THEN Some(2 * max_video_seconds)
                  ELSE IF video_url = "https://youtu.be/over"
                  THEN Some(max_video_seconds + 1)
                  ELSE IF video_url = "https://youtu.be/under"
                  THEN Some(max_video_seconds - 1)
                  ELSE IF video_url = "https://youtu.be/zero"
                  THEN Some(0)
                  ELSE IF video_url = "https://youtu.be/stream"
                  THEN None
                  ELSE Some(max_video_seconds)]

\* int(info.get("duration") or 0)
InfoDuration(info) == IF info.duration = None THEN 0 ELSE info.duration[1]

\* the duration check that also rejects a duration equal to the limit
TooLong_AtLimit(duration) == duration >= max_video_seconds

\* the duration check with the duration taken in minutes and the limit in seconds
TooLong_MinutesVsSeconds(duration) == duration \div 60 > max_video_seconds

TooLong(duration) == duration > max_video_seconds

VideoTooLongText(duration) ==
    <<Word("Video is too long ("), Num(duration \div 60),
      Word(" min). Maximum allowed is "), Num(max_video_minutes), Word(" min.")>>

ForbiddenText == <<Word("YouTube blocked direct download (HTTP 403).")>>
InfoErrorText == <<Word("Failed to fetch video info after multiple attempts")>>
DownloadFailedText == <<Word("Audio download failed after 5 attempts.")>>

\* What the collaborators of download_audio do in one call: the metadata
\* fetch fails, every download attempt ends in HTTP 403, every attempt fails
\* otherwise, or an attempt leaves a file.
DownloadOutcomes == {"ok", "info_error", "forbidden", "failed"}

\* download_audio: the exception raised (or None), the duration returned, the
\* collaborators invoked and whether source.* was written.
download_audio(video_url, outcome) ==
    LET duration == InfoDuration(fetch_video_info(video_url))
    IN  IF outcome = "info_error"
        THEN [raised |-> Some(Exc("YouTubeInfoError", InfoErrorText)), duration |-> 0,
              engines |-> {"video_info"}, downloaded |-> FALSE]
        ELSE IF TooLong(duration)
        THEN [raised |-> Some(Exc("VideoTooLongError", VideoTooLongText(duration))),
              duration |-> duration, engines |-> {"video_info"}, downloaded |-> FALSE]
        ELSE IF outcome = "forbidden"
        THEN [raised |-> Some(Exc("YouTubeForbiddenError", ForbiddenText)),
              duration |-> duration, engines |-> {"video_info", "download"},
              downloaded |-> FALSE]
        ELSE IF outcome = "failed"
        THEN [raised |-> Some(Exc("RuntimeError", DownloadFailedText)),
              duration |-> duration, engines |-> {"video_info", "download"},
              downloaded |-> FALSE]
        ELSE [raised |-> None, duration |-> duration,
              engines |-> {"video_info", "download"}, downloaded |-> TRUE]

-----------------------------------------------------------------------------
(* Speech engine, text engine, exporter *)

TranscriptSegment(start, end, text) == [start |-> start, end |-> end, text |-> text]

\* What the speech engine returns for an audio file: silence, speech, or
\* speech that runs past the first progress mark.
SpeechOutputs ==
    { [language |-> None,
       segments |-> <<TranscriptSegment(0, 2, <<SP>>)>>],
      [language |-> Some("en"),
       segments |-> <<TranscriptSegment(0, 2, <<SP, Word("hello")>>),
                      TranscriptSegment(2, 5, <<Word("world"), SP>>)>>],
      [language |-> Some("en"),
       segments |-> <<TranscriptSegment(0, 130, <<Word("lecture")>>)>>] }

\* sep.join(texts)
RECURSIVE Join(_, _)
Join(sep, texts) ==
    IF Len(texts) = 0 THEN <<>>
    ELSE IF Len(texts) = 1 THEN texts[1]
    ELSE texts[1] \o sep \o Join(sep, Tail(texts))

\* the texts of a list that are not empty, in order
RECURSIVE NonEmpty(_)
NonEmpty(texts) ==
    IF Len(texts) = 0 THEN <<>>
    ELSE (IF Len(Head(texts)) = 0 THEN <<>> ELSE <<Head(texts)>>) \o NonEmpty(Tail(texts))

\* asr.py lines 102 and 135: the media time between progress marks
progress_mark_sec == 120

\* the progress snapshots of the loop of transcribe_audio_file from
\* segments[i] on: processed seconds and segment count of each
RECURSIVE ProgressLoop(_, _, _, _)
ProgressLoop(segments, i, next_progress_mark_sec, snapshots) ==
    IF i > Len(segments) THEN snapshots
    ELSE IF segments[i].end >= next_progress_mark_sec
    THEN ProgressLoop(segments, i + 1, next_progress_mark_sec + progress_mark_sec,
                      Append(snapshots, [processed_sec |-> segments[i].end,
                                         segments |-> i]))
    ELSE ProgressLoop(segments, i + 1, next_progress_mark_sec, snapshots)

\* transcribe_audio_file: transcript, detected language, parsed segments
transcribe_audio_file(speech) ==
    LET parsed == [i \in 1..Len(speech.segments) |->
                      TranscriptSegment(speech.segments[i].start, speech.segments[i].end,
                                        Strip(speech.segments[i].text))]
        parts == NonEmpty([i \in 1..Len(parsed) |-> parsed[i].text])
    IN  [transcript |-> Join(<<SP>>, parts),
         language |-> IF speech.language = None THEN "unknown" ELSE speech.language[1],
         segments |-> parsed,
         snapshots |-> ProgressLoop(speech.segments, 1, progress_mark_sec, <<>>)]

\* the split test with the segment's start in place of its end
Splits_FromSegmentStart(current, segment, chunk_start, max_seconds) ==
    Len(current) > 0 /\ (segment.start - chunk_start) > max_seconds

\* the split test taken at the threshold as well as over it
Splits_AtThreshold(current, segment, chunk_start, max_seconds) ==
    Len(current) > 0 /\ (segment.end - chunk_start) >= max_seconds

\* chunking.py line 23: the segment does not fit into the current run
Splits(current, segment, chunk_start, max_seconds) ==
    Len(current) > 0 /\ (segment.end - chunk_start) > max_seconds

\* a new run that does not take the segment that caused the split
StartRun_Empty(segment) == <<>>

\* chunking.py line 25: current = [segment]
StartRun(segment) == <<segment>>

\* the loop of chunk_segments_by_minutes from segments[i] on
RECURSIVE ChunkLoop(_, _, _, _, _, _)
ChunkLoop(segments, i, chunks, current, chunk_start, max_seconds) ==
    IF i > Len(segments)
    THEN IF Len(current) > 0 THEN Append(chunks, current) ELSE chunks
    ELSE LET segment == segments[i]
         IN  IF Splits(current, segment, chunk_start, max_seconds)
             THEN ChunkLoop(segments, i + 1, Append(chunks, current), StartRun(segment),
                            segment.start, max_seconds)
             ELSE ChunkLoop(segments, i + 1, chunks, Append(current, segment),
                            chunk_start, max_seconds)

\* an item of join_segment_text's join that is not trimmed
JoinedText_Untrimmed(text) == text

\* chunking.py line 37: item.text.strip()
JoinedText(text) == Strip(text)

\* the joined items of segments[i..]: those whose trimmed text is not empty
RECURSIVE JoinedTexts(_, _)
JoinedTexts(segments, i) ==
    IF i > Len(segments) THEN <<>>
    ELSE (IF Len(Strip(segments[i].text)) # 0
          THEN <<JoinedText(segments[i].text)>> ELSE <<>>)
         \o JoinedTexts(segments, i + 1)

join_segment_text(segments) == Join(<<SP>>, JoinedTexts(segments, 1))

chunk_segments_by_minutes(segments, minutes) ==
    IF Len(segments) = 0 THEN <<>>
    ELSE ChunkLoop(segments, 1, <<>>, <<>>, segments[1].start, minutes * 60)

NoSpeechText == <<Word("No speech detected.")>>
NoOutlineText == <<Word("No lecture outline available.")>>
FinalSummaryText == <<Word("final summary")>>
OutlineText == <<Word("# Topic - outline")>>

\* What the text engine does during one summarize_with_map_reduce.
EngineOutcomes == {"ok", "RuntimeError", "Other"}

TextEngineErrorText == <<Word("text engine request failed")>>

\* A request to the text engine: the map prompt of chunk idx, or one of the
\* two reduce prompts (idx 0), with the text put after the instructions.
Prompt(kind, idx, text) == [kind |-> kind, idx |-> idx, text |-> text]

\* _ask_model when the engine answers: its answer, stripped. The engine
\* answers a map prompt with notes that name the chunk.
ask_model(prompt) ==
    IF prompt.kind = "map"
    THEN Strip(<<Word("notes on chunk "), Num(prompt.idx), SP>> \o prompt.text)
    ELSE IF prompt.kind = "summary" THEN FinalSummaryText
    ELSE OutlineText

\* a blank test that lets whitespace through
IsBlankTranscript_EmptyOnly(transcript) == Len(transcript) = 0

\* llm.py line 31: not transcript.strip()
IsBlankTranscript(transcript) == Len(Strip(transcript)) = 0

\* no chunk in place of the synthetic one
FallbackChunks_None(transcript) == <<>>

\* line 36: one synthetic chunk wrapping the whole transcript
FallbackChunks(transcript) == << <<TranscriptSegment(0, 0, transcript)>> >>

\* llm.py line 34: minutes=10
summary_chunk_minutes == 10

\* summarize_with_map_reduce: the exception raised (or None), the two texts,
\* whether the text engine was invoked, and the requests made to it in
\* order. When the engine fails, its first request raises.
summarize_with_map_reduce(transcript, segments, outcome) ==
    IF IsBlankTranscript(transcript)
    THEN [raised |-> None, summary |-> NoSpeechText, outline |-> NoOutlineText,
          engines |-> {}, prompts |-> <<>>]
    ELSE LET chunked == chunk_segments_by_minutes(segments, summary_chunk_minutes)
             chunks == IF Len(chunked) = 0 THEN FallbackChunks(transcript) ELSE chunked
             maps == [idx \in 1..Len(chunks) |->
                         Prompt("map", idx, join_segment_text(chunks[idx]))]
             partial_summaries == [idx \in 1..Len(maps) |-> ask_model(maps[idx])]
             merged == Join(<<NL, NL>>, partial_summaries)
             final_summary_prompt == Prompt("summary", 0, merged)
             outline_prompt == Prompt("outline", 0, merged)
             prompts == maps \o <<final_summary_prompt, outline_prompt>>
         IN  IF outcome = "ok"
             THEN [raised |-> None, summary |-> ask_model(final_summary_prompt),
                   outline |-> ask_model(outline_prompt), engines |-> {"text"},
                   prompts |-> prompts]
             ELSE [raised |-> Some(Exc(outcome, TextEngineErrorText)), summary |-> <<>>,
                   outline |-> <<>>, engines |-> {"text"},
                   prompts |-> SubSeq(prompts, 1, 1)]

\* floor(log2(num / den)) for positive integers (0 when num is not positive)
RECURSIVE Log2Floor(_, _)
Log2Floor(num, den) ==
    IF num <= 0 THEN 0
    ELSE IF num >= 2 * den THEN 1 + Log2Floor(num, 2 * den)
    ELSE IF num < den THEN Log2Floor(2 * num, den) - 1
    ELSE 0

\* 2^k mod 1000 for k >= 0, twenty doublings at a time
RECURSIVE Pow2Mod1000(_)
Pow2Mod1000(k) ==
    IF k <= 20 THEN (2 ^ k) % 1000
    ELSE (((2 ^ 20) % 1000) * Pow2Mod1000(k - 20)) % 1000

\* exports.py lines 22-25 for a time of ms milliseconds (seconds = ms / 1000
\* as a double): int(delta.total_seconds() * 1000) in IEEE double arithmetic.
\* timedelta holds the time exactly, in microseconds. total_seconds() is the
\* double x nearest to ms / 1000: x = m * 2^-k with 2^52 <= m < 2^53, so the
\* exact product x * 1000 is ms + d * 2^-k, where d is the rounding error of
\* m in thousandths (below, rem is (ms * 2^k) mod 1000; it is never 500
\* because 8 divides 2^k). The doubles next to ms are 2^s units of 2^-k
\* apart (half that below a power of two), and ms itself has an even
\* mantissa, so the product rounds to a double below ms, and int() gives
\* ms - 1, exactly when d is negative and more than half that distance.
TotalMs(ms) ==
    IF ms <= 0 THEN 0
    ELSE LET px == Log2Floor(ms, 1000)
             p == Log2Floor(ms, 1)
             s == p - px
             rem == ((ms % 1000) * Pow2Mod1000(52 - px)) % 1000
             d == IF rem < 500 THEN 0 - rem ELSE 1000 - rem
             half == IF ms = 2 ^ p THEN 2 ^ (s - 2) ELSE 2 ^ (s - 1)
         IN  IF d < 0 /\ (0 - d) > half THEN ms - 1 ELSE ms

\* lines 26-30: the four fields of HH:MM:SS,mmm
SrtFields(total_ms) ==
    [hours |-> total_ms \div 3600000,
     minutes |-> (total_ms % 3600000) \div 60000,
     secs |-> (total_ms % 60000) \div 1000,
     millis |-> total_ms % 1000]

\* _format_srt_ts for a time of ms milliseconds: the fields it prints
format_srt_ts_fields(ms) == SrtFields(TotalMs(ms))

\* _format_srt_ts for whole seconds, as one timestamp token of milliseconds
format_srt_ts(seconds) == Tok("ts", TotalMs(seconds * 1000), "")

\* the lines build_srt appends for segments[idx..]; idx is enumerate's index
RECURSIVE SrtLines(_, _)
SrtLines(segments, idx) ==
    IF idx > Len(segments) THEN <<>>
    ELSE LET seg == segments[idx]
             text == Strip(seg.text)
         IN  (IF Len(text) = 0 THEN <<>>
              ELSE << <<Num(idx)>>,
                      <<format_srt_ts(seg.start), Word(" --> "), format_srt_ts(seg.end)>>,
                      text,
                      <<>> >>)
             \o SrtLines(segments, idx + 1)

build_srt(segments) ==
    IF Len(segments) = 0 THEN <<>>
    ELSE Strip(Join(<<NL>>, SrtLines(segments, 1))) \o <<NL>>

build_summary_markdown(task_id, summary) ==
    <<Word("# Summary"), NL, NL, Word("Task ID: "), Num(task_id), NL, NL>>
        \o Strip(summary) \o <<NL>>

build_outline_markdown(task_id, outline) ==
    <<Word("# Outline"), NL, NL, Word("Task ID: "), Num(task_id), NL, NL>>
        \o Strip(outline) \o <<NL>>

build_transcript_markdown(task_id, transcript_text) ==
    <<Word("# Transcript"), NL, NL, Word("Task ID: "), Num(task_id), NL, NL>>
        \o (IF Len(Strip(transcript_text)) = 0 THEN <<Word("(empty transcript)")>>
            ELSE Strip(transcript_text))
        \o <<NL>>

-----------------------------------------------------------------------------
(* Chain runs *)

\* the four signatures enqueued as a group: stage 2 is dispatched at once
NewRun_Group(task_id) ==
    [stage |-> 2, pc |-> "queued", retries |-> 0, payload |-> [task_id |-> task_id],
     execs |-> 0, fault |-> None]

\* A chain run: the stage it is at (1 download, 2 transcribe, 3 summarize,
\* 4 finalize), where that stage's execution stands, request.retries of the
\* stage's message, the payload the stage was called with, the executions
\* begun of the current stage, and the exception that rejected or failed it.
NewRun(task_id) ==
    [stage |-> 1, pc |-> "queued", retries |-> 0, payload |-> [task_id |-> task_id],
     execs |-> 0, fault |-> None]

\* What one step did outside the tables: the run that took it, the
\* collaborators it invoked, the requests it posted to the notification sink
\* and the requests whose send raised.
Event(r) == [run |-> r, engines |-> {}, posted |-> <<>>, dropped |-> <<>>]

NoEvent == Event(0)

Invoke(ev, engines) == [ev EXCEPT !.engines = @ \cup engines]

\* send_message / send_document_bytes: the request is posted, or the send raises
Post(ev, msg, outcome) ==
    IF outcome = "sent"
    THEN [ev EXCEPT !.posted = Append(@, msg)]
    ELSE [ev EXCEPT !.dropped = Append(@, msg)]

\* _extract_task_id: the task id of a stage's first argument
extract_task_id(payload) == payload.task_id

\* a stage that does not look at skip
IsSkip_Ignored(payload) == FALSE

\* payload.get("skip")
IsSkip(payload) == Get(payload, "skip", FALSE)

SkipPayload(task_id) == [task_id |-> task_id, skip |-> TRUE]

\* The stage returned: the chain calls the next stage with the payload, and
\* ends after finalize.
Return(run, payload) ==
    IF run.stage = 4
    THEN [run EXCEPT !.pc = "done", !.payload = payload]
    ELSE [run EXCEPT !.stage = @ + 1, !.pc = "queued", !.retries = 0, !.execs = 0,
                     !.payload = payload]

\* OnFailure without the try/except around send_message: a send that raises
\* leaves the handler before cleanup_temp_dir
OnFailure_SendAborts(r, run, tk, tm, ev, exc, send) ==
    LET task_pk == extract_task_id(run.payload)
        message == exc.text
        tk2 == SetStatus(tk, task_pk, "failed", Some(message), None, None)
        found == SetStatusFound(tk, task_pk)
    IN  /\ tasks' = tk2
        /\ tmp' = IF found /\ send = "raised" THEN tm ELSE cleanup_temp_dir(tm, task_pk)
        /\ runs' = [runs EXCEPT ![r] = [run EXCEPT !.pc = "failed", !.fault = Some(exc)]]
        /\ last' = IF found
                   THEN Post(ev, Msg(tk2[task_pk].user_id, "failed", task_pk, message), send)
                   ELSE ev

\* DBTask.on_failure: the stage's execution failed for good and the chain stops.
OnFailure(r, run, tk, tm, ev, exc, send) ==
    LET task_pk == extract_task_id(run.payload)
        message == exc.text
        tk2 == SetStatus(tk, task_pk, "failed", Some(message), None, None)
    IN  /\ tasks' = tk2
        /\ tmp' = cleanup_temp_dir(tm, task_pk)
        /\ runs' = [runs EXCEPT ![r] = [run EXCEPT !.pc = "failed", !.fault = Some(exc)]]
        /\ last' = IF SetStatusFound(tk, task_pk)
                   THEN Post(ev, Msg(tk2[task_pk].user_id, "failed", task_pk, message), send)
                   ELSE ev

\* ShouldRetry with the retry budget off by one
ShouldRetry_OneMore(run, exc) ==
    exc.type \in AutoRetryFor(run.stage) /\ run.retries <= MaxRetries(run.stage)

\* autoretry_for with max_retries
ShouldRetry(run, exc) ==
    exc.type \in AutoRetryFor(run.stage) /\ run.retries < MaxRetries(run.stage)

\* The stage raised exc with the tables and directories as tk and tm: the
\* message is delivered again with retries + 1, or the execution fails.
Raise(r, run, tk, tm, ev, exc, send) ==
    IF ShouldRetry(run, exc)
    THEN /\ tasks' = tk
         /\ tmp' = tm
         /\ runs' = [runs EXCEPT ![r] = [run EXCEPT !.pc = "queued", !.retries = @ + 1]]
         /\ last' = ev
    ELSE OnFailure(r, run, tk, tm, ev, exc, send)

NotFoundText(task_id) == <<Word("Task "), Num(task_id), Word(" not found")>>

\* an execution of the run's current stage begins
Begin(run) == [run EXCEPT !.execs = @ + 1]

-----------------------------------------------------------------------------
(* Stage 1: download_audio_task *)

\* lines 77-83: look the task up, skip a completed one, set downloading
DownloadStart(r) ==
    /\ runs[r].stage = 1 /\ runs[r].pc = "queued"
    /\ LET run == Begin(runs[r])
           task_id == run.payload.task_id
       IN  IF task_id \notin DOMAIN tasks
           THEN Raise(r, run, tasks, tmp, Event(r),
                      Exc("ValueError", NotFoundText(task_id)), "sent")
           ELSE IF tasks[task_id].status = "completed"
           THEN /\ runs' = [runs EXCEPT ![r] = Return(run, SkipPayload(task_id))]
                /\ last' = Event(r)
                /\ UNCHANGED <<tasks, tmp>>
           ELSE /\ tasks' = SetStatus(tasks, task_id, "downloading", None, None, None)
                /\ runs' = [runs EXCEPT ![r] = [run EXCEPT !.pc = "running"]]
                /\ last' = Event(r)
                /\ UNCHANGED tmp
    /\ UNCHANGED results

\* lines 85-104: download, set downloaded; a rejection fails the task and
\* returns the skip payload
DownloadFinish(r, outcome, send) ==
    /\ runs[r].stage = 1 /\ runs[r].pc = "running"
    /\ LET run == runs[r]
           task_id == run.payload.task_id
           tm1 == mkdir(tmp, task_id)
           got == download_audio(tasks[task_id].video_url, outcome)
           ev == Invoke(Event(r), got.engines)
       IN  IF task_id \notin DOMAIN tasks
           THEN Raise(r, run, tasks, tmp, Event(r),
                      Exc("ValueError", NotFoundText(task_id)), send)
           ELSE IF got.raised = None
           THEN /\ tasks' = SetStatus(tasks, task_id, "downloaded", None, None,
                                      Some(got.duration))
                /\ tmp' = write_file(tm1, task_id, "source")
                /\ runs' = [runs EXCEPT ![r] =
                              Return(run, [task_id |-> task_id, source_path |-> "source",
                                           duration_sec |-> got.duration])]
                /\ last' = ev
           ELSE IF got.raised[1].type \in RejectionTypes
           THEN LET exc == got.raised[1]
                    tk2 == SetStatus(tasks, task_id, "failed", Some(exc.text), None, None)
                IN  /\ tasks' = tk2
                    /\ tmp' = cleanup_temp_dir(tm1, task_id)
                    /\ runs' = [runs EXCEPT ![r] =
                                  Return([run EXCEPT !.fault = Some(exc)],
                                         SkipPayload(task_id))]
                    /\ last' = Post(ev, Msg(tk2[task_id].user_id, "rejected", task_id,
                                            exc.text), send)
           ELSE Raise(r, run, tasks, tm1, ev, got.raised[1], send)
    /\ UNCHANGED results

-----------------------------------------------------------------------------
(* Stage 2: transcribe_audio_task *)

FfmpegFailedText == <<Word("ffmpeg conversion failed")>>
SpeechErrorText == <<Word("speech engine failed")>>

\* lines 118-123: forward a skip payload, else set transcribing
TranscribeStart(r) ==
    /\ runs[r].stage = 2 /\ runs[r].pc = "queued"
    /\ LET run == Begin(runs[r])
           task_id == run.payload.task_id
       IN  IF IsSkip(run.payload)
           THEN /\ runs' = [runs EXCEPT ![r] = Return(run, run.payload)]
                /\ UNCHANGED tasks
           ELSE /\ tasks' = SetStatus(tasks, task_id, "transcribing", None, None, None)
                /\ runs' = [runs EXCEPT ![r] = [run EXCEPT !.pc = "running"]]
    /\ last' = Event(r)
    /\ UNCHANGED <<results, tmp>>

\* What self.update_state does when _progress_callback reports a snapshot.
SinkOutcomes == {"ok", "RuntimeError", "Other"}

ProgressSinkErrorText == <<Word("result backend unavailable")>>

\* lines 125-163: convert to WAV (ffmpeg fails when the source file is gone),
\* transcribe, reporting each snapshot through _progress_callback (nothing
\* catches what update_state raises), extend the payload, set transcribed
TranscribeFinish(r, outcome, speech, sink, send) ==
    /\ runs[r].stage = 2 /\ runs[r].pc = "running"
    /\ LET run == runs[r]
           payload == run.payload
           task_id == payload.task_id
           source_ok == task_id \in DOMAIN tmp /\ payload.source_path \in tmp[task_id]
           ev1 == Invoke(Event(r), {"ffmpeg"})
           ev2 == Invoke(ev1, {"speech"})
           got == transcribe_audio_file(speech)
           ev3 == IF Len(got.snapshots) = 0 THEN ev2
                  ELSE IF sink = "ok" THEN Invoke(ev2, {"update_state"})
                  ELSE Invoke(ev2, {"update_state", "update_state raised"})
           out == Put(Put(Put(payload, "transcript_text", got.transcript),
                          "language", got.language), "segments", got.segments)
       IN  IF ~source_ok \/ outcome = "RuntimeError"
           THEN Raise(r, run, tasks, tmp, ev1, Exc("RuntimeError", FfmpegFailedText), send)
           ELSE IF outcome = "Other"
           THEN Raise(r, run, tasks, write_file(tmp, task_id, "audio.wav"), ev2,
                      Exc("Other", SpeechErrorText), send)
           ELSE IF Len(got.snapshots) > 0 /\ sink # "ok"
           THEN Raise(r, run, tasks, write_file(tmp, task_id, "audio.wav"), ev3,
                      Exc(sink, ProgressSinkErrorText), send)
           ELSE /\ tasks' = SetStatus(tasks, task_id, "transcribed", None,
                                      Some(got.language), None)
                /\ tmp' = write_file(tmp, task_id, "audio.wav")
                /\ runs' = [runs EXCEPT ![r] = Return(run, out)]
                /\ last' = ev3
    /\ UNCHANGED results

-----------------------------------------------------------------------------
(* Stage 3: summarize_transcript_task *)

\* lines 177-182: forward a skip payload, else set summarizing
SummarizeStart(r) ==
    /\ runs[r].stage = 3 /\ runs[r].pc = "queued"
    /\ LET run == Begin(runs[r])
           task_id == run.payload.task_id
       IN  IF IsSkip(run.payload)
           THEN /\ runs' = [runs EXCEPT ![r] = Return(run, run.payload)]
                /\ UNCHANGED tasks
           ELSE /\ tasks' = SetStatus(tasks, task_id, "summarizing", None, None, None)
                /\ runs' = [runs EXCEPT ![r] = [run EXCEPT !.pc = "running"]]
    /\ last' = Event(r)
    /\ UNCHANGED <<results, tmp>>

\* lines 184-190: summarize, extend the payload
SummarizeFinish(r, outcome, send) ==
    /\ runs[r].stage = 3 /\ runs[r].pc = "running"
    /\ LET run == runs[r]
           payload == run.payload
           got == summarize_with_map_reduce(Get(payload, "transcript_text", <<>>),
                                            Get(payload, "segments", <<>>), outcome)
           ev == Invoke(Event(r), got.engines)
       IN  IF got.raised # None
           THEN Raise(r, run, tasks, tmp, ev, got.raised[1], send)
           ELSE /\ runs' = [runs EXCEPT ![r] =
                              Return(run, Put(Put(payload, "summary", got.summary),
                                              "outline", got.outline))]
                /\ last' = ev
                /\ UNCHANGED <<tasks, tmp>>
    /\ UNCHANGED results

-----------------------------------------------------------------------------
(* Stage 4: finalize_task *)

IntegrityErrorText == <<Word("results.task_id violates the foreign key")>>
SendErrorText == <<Word("connection to the notification sink failed")>>

\* subtitles_srt or None
OrNone(text) == IF Len(text) = 0 THEN None ELSE Some(text)

DbErrorText == <<Word("server closed the connection unexpectedly")>>

\* on_failure when its own set_status raises (line 36): nothing is written,
\* no message is sent, and line 43, cleanup_temp_dir, is not reached
OnFailureAborted(r, run, ev, exc) ==
    /\ runs' = [runs EXCEPT ![r] = [run EXCEPT !.pc = "failed", !.fault = Some(exc)]]
    /\ last' = ev
    /\ UNCHANGED <<tasks, tmp>>

\* lines 196-215: forward a skip payload, else persist the Result and set
\* completed; an exception of the session goes to on_failure. fault is what
\* the database does in finalize_task's session: it serves both calls
\* ("none"), or upsert_result raises, or set_status raises after the Result
\* was committed (connection lost, server gone); handler is what it does in
\* on_failure's session afterwards ("ok" or "raised").
FinalizeStart(r, fault, handler) ==
    /\ runs[r].stage = 4 /\ runs[r].pc = "queued"
    /\ LET run == Begin(runs[r])
           payload == run.payload
           task_id == payload.task_id
           subtitles_srt == build_srt(Get(payload, "segments", <<>>))
           persisted == upsert_result(results, task_id,
                                      Get(payload, "transcript_text", <<>>),
                                      Get(payload, "summary", <<>>),
                                      Get(payload, "outline", <<>>),
                                      OrNone(subtitles_srt))
       IN  IF IsSkip(payload)
           THEN /\ runs' = [runs EXCEPT ![r] = Return(run, payload)]
                /\ last' = Event(r)
                /\ UNCHANGED <<tasks, results, tmp>>
           ELSE IF task_id \notin DOMAIN tasks
           THEN /\ Raise(r, run, tasks, tmp, Event(r), Exc("Other", IntegrityErrorText),
                         "sent")
                /\ UNCHANGED results
           ELSE IF fault # "none"
           THEN /\ results' = IF fault = "set_status" THEN persisted ELSE results
                /\ IF handler = "ok"
                   THEN Raise(r, run, tasks, tmp, Event(r), Exc("Other", DbErrorText),
                              "sent")
                   ELSE OnFailureAborted(r, run, Event(r), Exc("Other", DbErrorText))
           ELSE /\ results' = persisted
                /\ tasks' = SetStatus(tasks, task_id, "completed", Some(<<>>), None, None)
                /\ runs' = [runs EXCEPT ![r] = [run EXCEPT !.pc = "sending"]]
                /\ last' = Event(r)
                /\ UNCHANGED tmp

\* Deliveries with the subtitle file sent whatever the SRT text is
Deliveries_SubtitlesAlways(task_id, user_id, payload) ==
    <<Msg(user_id, "completed", task_id, <<>>),
      Msg(user_id, "summary.md", task_id,
          build_summary_markdown(task_id, Get(payload, "summary", <<>>))),
      Msg(user_id, "outline.md", task_id,
          build_outline_markdown(task_id, Get(payload, "outline", <<>>))),
      Msg(user_id, "transcript.md", task_id,
          build_transcript_markdown(task_id, Get(payload, "transcript_text", <<>>))),
      Msg(user_id, "subtitles.srt", task_id, build_srt(Get(payload, "segments", <<>>)))>>

\* The requests finalize_task posts when every send succeeds, in order.
Deliveries(task_id, user_id, payload) ==
    LET subtitles_srt == build_srt(Get(payload, "segments", <<>>))
    IN  <<Msg(user_id, "completed", task_id, <<>>),
          Msg(user_id, "summary.md", task_id,
              build_summary_markdown(task_id, Get(payload, "summary", <<>>))),
          Msg(user_id, "outline.md", task_id,
              build_outline_markdown(task_id, Get(payload, "outline", <<>>))),
          Msg(user_id, "transcript.md", task_id,
              build_transcript_markdown(task_id, Get(payload, "transcript_text", <<>>)))>>
        \o (IF Len(Strip(subtitles_srt)) # 0
            THEN <<Msg(user_id, "subtitles.srt", task_id, subtitles_srt)>>
            ELSE <<>>)

MaxDeliveries == 5

\* lines 216-250: deliver; the failAt-th send raises (0: none does), then the
\* degraded warning is posted, and if that raises too the stage fails
FinalizeDeliver(r, failAt, warn, send) ==
    /\ runs[r].stage = 4 /\ runs[r].pc = "sending"
    /\ LET run == runs[r]
           payload == run.payload
           task_id == payload.task_id
           user_id == tasks[task_id].user_id
           docs == Deliveries(task_id, user_id, payload)
           failed == failAt \in 1..Len(docs)
           ev1 == [Event(r) EXCEPT
                      !.posted = IF failed THEN SubSeq(docs, 1, failAt - 1) ELSE docs]
           ev2 == IF failed
                  THEN Post(Post(ev1, docs[failAt], "raised"),
                            Msg(user_id, "degraded", task_id, <<>>), warn)
                  ELSE ev1
       IN  IF failed /\ warn = "raised"
           THEN Raise(r, run, tasks, tmp, ev2, Exc("Other", SendErrorText), send)
           ELSE /\ runs' = [runs EXCEPT ![r] =
                              Return(run, [task_id |-> task_id, status |-> "completed"])]
                /\ tmp' = cleanup_temp_dir(tmp, task_id)
                /\ last' = ev2
                /\ UNCHANGED tasks
    /\ UNCHANGED results

-----------------------------------------------------------------------------
(* Ingress *)

\* handle_message: create the task and enqueue its chain
HandleMessage(user_id, video_url) ==
    /\ Cardinality(DOMAIN tasks) < MaxTaskId
    /\ Len(runs) < MaxRuns
    /\ tasks' = create_task(tasks, user_id, video_url)
    /\ runs' = Append(runs, NewRun(Cardinality(DOMAIN tasks) + 1))
    /\ last' = NoEvent
    /\ UNCHANGED <<results, tmp>>

\* "if result.subtitles_srt": the column is neither NULL nor the empty string
Truthy(text) == text # None /\ Len(text[1]) > 0

\* cmd_status for an allowed requester: the answers it sends, in order
cmd_status(tk, rs, requester_id, task_id) ==
    IF task_id \notin DOMAIN tk
    THEN <<Msg(requester_id, "not found", task_id, <<>>)>>
    ELSE IF tk[task_id].user_id # requester_id
    THEN <<Msg(requester_id, "not yours", task_id, <<>>)>>
    ELSE IF tk[task_id].status # "completed"
    THEN <<Msg(requester_id, "status", task_id, <<Word(tk[task_id].status)>>)>>
    ELSE IF GetResult(rs, task_id) = {}
    THEN <<Msg(requester_id, "result missing", task_id, <<>>)>>
    ELSE LET result == CHOOSE row \in GetResult(rs, task_id) : TRUE
         IN  <<Msg(requester_id, "status", task_id, <<Word("completed")>>),
               Msg(requester_id, "summary.md", task_id,
                   build_summary_markdown(task_id, result.summary)),
               Msg(requester_id, "outline.md", task_id,
                   build_outline_markdown(task_id, result.outline)),
               Msg(requester_id, "transcript.md", task_id,
                   build_transcript_markdown(task_id, result.transcript_text))>>
             \o (IF Truthy(result.subtitles_srt)
                 THEN <<Msg(requester_id, "subtitles.srt", task_id,
                            result.subtitles_srt[1])>>
                 ELSE <<>>)

\* A chain enqueued for a task id outside handle_message: a second run of the
\* chain for a task, or a run for an id that has no row.
EnqueueChain(task_id) ==
    /\ Len(runs) < MaxRuns
    /\ runs' = Append(runs, NewRun(task_id))
    /\ last' = NoEvent
    /\ UNCHANGED <<tasks, results, tmp>>

-----------------------------------------------------------------------------
(* URL validation: is_valid_youtube_url *)

\* A URL as written: scheme://[userinfo@]host[:port]path[?query], with ""
\* for a part that is absent, the path as its "/" and name tokens, and the
\* query as its key=value pairs.
Url(scheme, userinfo, host, port, path, query) ==
    [scheme |-> scheme, userinfo |-> userinfo, host |-> host, port |-> port,
     path |-> path, query |-> query]

\* str.lower for the scheme names used
Lower(name) == IF name = "HTTPS" THEN "https" ELSE IF name = "HTTP" THEN "http" ELSE name

\* the text [userinfo@]host[:port]
Netloc(userinfo, host, port) == <<userinfo, host, port>>

\* urlparse: the scheme in lower case, the netloc, path and query as written
urlparse(url) ==
    [scheme |-> Lower(url.scheme), netloc |-> Netloc(url.userinfo, url.host, url.port),
     path |-> url.path, query |-> url.query]

\* validators.py lines 5-10, as netlocs: a bare host name
VALID_HOSTS ==
    {Netloc("", host, "") :
     host \in {"youtube.com", "www.youtube.com", "m.youtube.com", "youtu.be"}}

\* a validator that does not look at the netloc
HostAllowed_AnyHost(netloc) == TRUE

\* line 22: parsed.netloc in _VALID_HOSTS
HostAllowed(netloc) == netloc \in VALID_HOSTS

\* path.strip("/")
RECURSIVE StripSlashes(_)
StripSlashes(path) ==
    IF Len(path) = 0 THEN path
    ELSE IF Head(path) = "/" THEN StripSlashes(Tail(path))
    ELSE IF path[Len(path)] = "/" THEN StripSlashes(SubSeq(path, 1, Len(path) - 1))
    ELSE path

\* path.startswith(prefix)
StartsWith(path, prefix) ==
    Len(path) >= Len(prefix) /\ SubSeq(path, 1, Len(prefix)) = prefix

\* parse_qs(query).get(key): the values of key that are not blank (blank
\* values are dropped: keep_blank_values is off), <<>> when there is none
RECURSIVE QueryValues(_, _)
QueryValues(query, key) ==
    IF Len(query) = 0 THEN <<>>
    ELSE (IF Head(query)[1] = key /\ Head(query)[2] # "" THEN <<Head(query)[2]>> ELSE <<>>)
         \o QueryValues(Tail(query), key)

is_valid_youtube_url(url) ==
    LET parsed == urlparse(url)
    IN  IF parsed.scheme \notin {"http", "https"} THEN FALSE
        ELSE IF ~HostAllowed(parsed.netloc) THEN FALSE
        ELSE IF parsed.netloc = Netloc("", "youtu.be", "")
        THEN Len(StripSlashes(parsed.path)) > 0
        ELSE IF parsed.path = <<"/", "watch">>
        THEN Len(QueryValues(parsed.query, "v")) > 0
        ELSE \/ StartsWith(parsed.path, <<"/", "shorts", "/">>)
             \/ StartsWith(parsed.path, <<"/", "live", "/">>)

-----------------------------------------------------------------------------
(* The speech engine handle: get_whisper_model *)

\* asr.py lines 17-18 with settings.whisper_device: _model is None or the
\* instance (numbered by construction), _model_lock is free (0) or held by a
\* thread, built counts the constructor calls that completed. A thread of
\* the worker process: where it stands in get_whisper_model ("idle" outside
\* it, else the line it is about to execute), the calls it has begun, the
\* instance its latest call returned, and how many of its calls ended with
\* an exception.
WhisperState(device, threads) ==
    [model |-> None, lock |-> 0, built |-> 0, device |-> device,
     th |-> [t \in threads |-> [pc |-> "idle", calls |-> 0, ret |-> None,
                                raises |-> 0]]]

\* a process in which no thread calls get_whisper_model
NoWhisper == WhisperState("cpu", {})

\* get_whisper_model without the second test under the lock
NeedsInit_NoRecheck(model) == TRUE

\* line 28: if _model is None
NeedsInit(model) == model = None

\* What WhisperModel(...) does: it returns an instance or raises.
CtorOutcomes == {"ok", "raised"}

-----------------------------------------------------------------------------
(* Specifications *)

Init ==
    /\ tasks = <<>>
    /\ results = {}
    /\ tmp = <<>>
    /\ runs = <<>>
    /\ last = NoEvent
    /\ call = NoCall
    /\ whisper = NoWhisper

DownloadStep ==
    /\ \E r \in DOMAIN runs :
          \/ DownloadStart(r)
          \/ \E outcome \in DownloadOutcomes, send \in SendOutcomes :
                 DownloadFinish(r, outcome, send)
    /\ UNCHANGED <<call, whisper>>

TranscribeStep ==
    /\ \E r \in DOMAIN runs :
          \/ TranscribeStart(r)
          \/ \E outcome \in EngineOutcomes, speech \in SpeechOutputs,
                sink \in SinkOutcomes, send \in SendOutcomes :
                 TranscribeFinish(r, outcome, speech, sink, send)
    /\ UNCHANGED <<call, whisper>>

SummarizeStep ==
    /\ \E r \in DOMAIN runs :
          \/ SummarizeStart(r)
          \/ \E outcome \in EngineOutcomes, send \in SendOutcomes :
                 SummarizeFinish(r, outcome, send)
    /\ UNCHANGED <<call, whisper>>

FinalizeStep ==
    /\ \E r \in DOMAIN runs :
          \/ FinalizeStart(r, "none", "ok")
          \/ \E failAt \in 0..MaxDeliveries, warn \in SendOutcomes, send \in SendOutcomes :
                 FinalizeDeliver(r, failAt, warn, send)
    /\ UNCHANGED <<call, whisper>>

StageStep == DownloadStep \/ TranscribeStep \/ SummarizeStep \/ FinalizeStep

Ingress ==
    /\ \E s \in Submissions : HandleMessage(s.user_id, s.video_url)
    /\ UNCHANGED <<call, whisper>>

Bypass ==
    /\ \E task_id \in 1..MaxTaskId : EnqueueChain(task_id)
    /\ UNCHANGED <<call, whisper>>

\* The stages run with the database available throughout.
\* Chains are enqueued by the ingress only: one chain per task.
NextIngress == Ingress \/ StageStep

\* Chains may also be enqueued again, or for ids that have no row.
Next == Ingress \/ Bypass \/ StageStep

SpecIngress == Init /\ [][NextIngress]_vars

Spec == Init /\ [][Next]_vars

\* handle_message has created a task and enqueued its chain
InitFair ==
    /\ \E s \in Submissions : tasks = create_task(<<>>, s.user_id, s.video_url)
    /\ results = {}
    /\ tmp = <<>>
    /\ runs = <<NewRun(1)>>
    /\ last = NoEvent
    /\ call = NoCall
    /\ whisper = NoWhisper

\* The worker pools keep taking the messages that are queued and every call
\* a stage makes returns or raises: a stage step that can be taken is taken.
SpecFair == InitFair /\ [][StageStep]_vars /\ WF_vars(StageStep)

-----------------------------------------------------------------------------
(* Repository calls on their own *)

\* the table after n calls of create_task
RECURSIVE TasksCreated(_)
TasksCreated(n) ==
    IF n = 0 THEN <<>>
    ELSE create_task(TasksCreated(n - 1), 501, "https://youtu.be/lecture")

ResultTexts == {<<>>, <<Word("text")>>}

\* the arguments of upsert_result besides the task id
ResultArgs ==
    [transcript_text : ResultTexts, summary : ResultTexts, outline : ResultTexts,
     subtitles_srt : {None, Some(<<Num(1), NL>>)}]

InitUpsert ==
    /\ tasks = TasksCreated(MaxTaskId)
    /\ results = {}
    /\ tmp = <<>>
    /\ runs = <<>>
    /\ last = NoEvent
    /\ call = NoCall
    /\ whisper = NoWhisper

\* one call of TaskRepository.upsert_result for an existing task; the event
\* names the branch taken
UpsertResult ==
    /\ \E task_id \in DOMAIN tasks, a \in ResultArgs :
          /\ results' = upsert_result(results, task_id, a.transcript_text, a.summary,
                                      a.outline, a.subtitles_srt)
          /\ last' = Invoke(NoEvent, IF GetResult(results, task_id) # {}
                                     THEN {"results.update"}
                                     ELSE {"results.add"})
    /\ UNCHANGED <<tasks, tmp, runs, call, whisper>>

SpecUpsert == InitUpsert /\ [][UpsertResult]_vars

-----------------------------------------------------------------------------
(* TaskRepository.set_status called on its own *)

\* one call of set_status for an existing task, with any status and each
\* optional argument passed or left None; call records the arguments
SetStatusCall ==
    /\ \E task_id \in DOMAIN tasks, status \in Statuses,
          error \in {None, Some(<<>>), Some(DownloadFailedText)},
          language \in {None, Some("en")},
          duration_sec \in {None, Some(max_video_seconds)} :
          /\ tasks' = SetStatus(tasks, task_id, status, error, language, duration_sec)
          /\ call' = Call("set_status",
                          <<task_id, status, error, language, duration_sec>>)
    /\ UNCHANGED <<results, tmp, runs, last, whisper>>

\* create_task has added one task
InitSetStatus ==
    /\ tasks = TasksCreated(1)
    /\ results = {}
    /\ tmp = <<>>
    /\ runs = <<>>
    /\ last = NoEvent
    /\ call = NoCall
    /\ whisper = NoWhisper

SpecSetStatus == InitSetStatus /\ [][SetStatusCall]_vars

-----------------------------------------------------------------------------
(* Stages called for a task id that has no row *)

\* the id the stages are called with; the ids below it have rows
OrphanId == MaxTaskId

\* the non-skip payloads stage n is called with, as the stages before it
\* build them
StagePayloads(task_id, stage) ==
    LET p1 == [task_id |-> task_id]
        p2 == [task_id |-> task_id, source_path |-> "source",
               duration_sec |-> max_video_seconds]
        p3 == {Put(Put(Put(p2, "transcript_text", transcribe_audio_file(speech).transcript),
                       "language", transcribe_audio_file(speech).language),
                   "segments", transcribe_audio_file(speech).segments) :
               speech \in SpeechOutputs}
        p4 == {Put(Put(p, "summary",
                       summarize_with_map_reduce(p.transcript_text, p.segments, "ok").summary),
                   "outline",
                   summarize_with_map_reduce(p.transcript_text, p.segments, "ok").outline) :
               p \in p3}
    IN  CASE stage = 1 -> {p1}
          [] stage = 2 -> {p2}
          [] stage = 3 -> p3
          [] OTHER -> p4

\* a stage called on its own with a payload naming OrphanId
OrphanCalls ==
    UNION {{[NewRun(OrphanId) EXCEPT !.stage = stage, !.payload = payload] :
            payload \in StagePayloads(OrphanId, stage)} : stage \in 1..4}

\* MaxRuns stages are called with payloads naming OrphanId; its directory is
\* absent, or left behind with the downloaded source in it.
InitOrphan ==
    /\ tasks = TasksCreated(MaxTaskId - 1)
    /\ results = {}
    /\ tmp \in {<<>>, write_file(mkdir(<<>>, OrphanId), OrphanId, "source")}
    /\ runs \in [1..MaxRuns -> OrphanCalls]
    /\ last = NoEvent
    /\ call = NoCall
    /\ whisper = NoWhisper

SpecOrphan == InitOrphan /\ [][StageStep]_vars

-----------------------------------------------------------------------------
(* finalize_task called for summarized tasks, the database failing at will *)

\* the table with tasks 1..n created and taken through the first three stages
RECURSIVE TasksSummarized(_)
TasksSummarized(n) ==
    IF n = 0 THEN <<>>
    ELSE SetStatus(create_task(TasksSummarized(n - 1), 501, "https://youtu.be/lecture"),
                   n, "summarizing", None, Some("en"), Some(max_video_seconds))

\* MaxRuns chains are at stage 4 with the payloads stage 3 returns, and each
\* task's directory holds the downloaded source and the converted audio.
InitFinalize ==
    /\ tasks = TasksSummarized(MaxTaskId)
    /\ results = {}
    /\ tmp = [t \in 1..MaxTaskId |-> {"source", "audio.wav"}]
    /\ runs \in [1..MaxRuns ->
                  UNION {{[NewRun(t) EXCEPT !.stage = 4, !.payload = payload] :
                          payload \in StagePayloads(t, 4)} : t \in 1..MaxTaskId}]
    /\ last = NoEvent
    /\ call = NoCall
    /\ whisper = NoWhisper

NextFinalize ==
    /\ \E r \in DOMAIN runs :
          \/ \E fault \in {"none", "upsert_result", "set_status"},
                handler \in {"ok", "raised"} :
                 FinalizeStart(r, fault, handler)
          \/ \E failAt \in 0..MaxDeliveries, warn \in SendOutcomes, send \in SendOutcomes :
                 FinalizeDeliver(r, failAt, warn, send)
    /\ UNCHANGED <<call, whisper>>

SpecFinalize == InitFinalize /\ [][NextFinalize]_vars

-----------------------------------------------------------------------------
(* Threads of one process calling get_whisper_model *)

MaxThreads == 2
MaxCalls == 2

InitWhisper ==
    /\ tasks = <<>>
    /\ results = {}
    /\ tmp = <<>>
    /\ runs = <<>>
    /\ last = NoEvent
    /\ call = NoCall
    /\ whisper \in {WhisperState(device, 1..MaxThreads) : device \in {"cpu", "cuda"}}

\* thread t of the process moves to th
Thread(w, t, th) == [w EXCEPT !.th[t] = th]

\* thread t leaves the with block: _model_lock is released
Release(w) == [w EXCEPT !.lock = 0]

\* line 21: thread t calls get_whisper_model
WhisperCall(t) ==
    /\ whisper.th[t].pc = "idle" /\ whisper.th[t].calls < MaxCalls
    /\ whisper' = Thread(whisper, t, [whisper.th[t] EXCEPT !.pc = "24", !.calls = @ + 1,
                                                           !.ret = None])

\* line 24: if _model is not None (read without the lock)
WhisperTest(t) ==
    /\ whisper.th[t].pc = "24"
    /\ whisper' = Thread(whisper, t,
                         [whisper.th[t] EXCEPT !.pc = IF whisper.model # None
                                                      THEN "25" ELSE "27"])

\* lines 25 and 56: return _model
WhisperReturn(t) ==
    /\ whisper.th[t].pc \in {"25", "56"}
    /\ whisper' = Thread(whisper, t,
                         [whisper.th[t] EXCEPT !.pc = "idle", !.ret = whisper.model])

\* line 27: with _model_lock (blocks while another thread holds it)
WhisperAcquire(t) ==
    /\ whisper.th[t].pc = "27" /\ whisper.lock = 0
    /\ whisper' = Thread([whisper EXCEPT !.lock = t], t,
                         [whisper.th[t] EXCEPT !.pc = "28"])

\* line 28: the test under the lock; when it fails the with block ends
WhisperRecheck(t) ==
    /\ whisper.th[t].pc = "28"
    /\ whisper' = IF NeedsInit(whisper.model)
                  THEN Thread(whisper, t, [whisper.th[t] EXCEPT !.pc = "38"])
                  ELSE Thread(Release(whisper), t, [whisper.th[t] EXCEPT !.pc = "56"])

\* the constructor completed: _model is assigned the new instance
Constructed(w, t) ==
    Thread([w EXCEPT !.model = Some(w.built + 1), !.built = w.built + 1], t,
           [w.th[t] EXCEPT !.pc = "exit"])

\* the exception leaves get_whisper_model through the with block
Propagate(w, t) ==
    Thread(Release(w), t, [w.th[t] EXCEPT !.pc = "idle", !.raises = @ + 1])

\* lines 38-55: the constructor on the requested device; when it raises,
\* fall back to the cpu unless the requested device was the cpu
WhisperConstruct(t, outcome) ==
    /\ whisper.th[t].pc = "38"
    /\ whisper' = IF outcome = "ok" THEN Constructed(whisper, t)
                  ELSE IF whisper.device # "cpu"
                  THEN Thread(whisper, t, [whisper.th[t] EXCEPT !.pc = "49"])
                  ELSE Propagate(whisper, t)

\* lines 49-53: the constructor on the cpu, inside the except block
WhisperFallback(t, outcome) ==
    /\ whisper.th[t].pc = "49"
    /\ whisper' = IF outcome = "ok" THEN Constructed(whisper, t)
                  ELSE Propagate(whisper, t)

\* the end of the with block after the assignment
WhisperExit(t) ==
    /\ whisper.th[t].pc = "exit"
    /\ whisper' = Thread(Release(whisper), t, [whisper.th[t] EXCEPT !.pc = "56"])

NextWhisper ==
    /\ \E t \in DOMAIN whisper.th :
          \/ WhisperCall(t)
          \/ WhisperTest(t)
          \/ WhisperReturn(t)
          \/ WhisperAcquire(t)
          \/ WhisperRecheck(t)
          \/ \E outcome \in CtorOutcomes : WhisperConstruct(t, outcome)
          \/ \E outcome \in CtorOutcomes : WhisperFallback(t, outcome)
          \/ WhisperExit(t)
    /\ UNCHANGED <<tasks, results, tmp, runs, last, call>>

SpecWhisper == InitWhisper /\ [][NextWhisper]_vars

-----------------------------------------------------------------------------
(* Library functions called on their own *)

MaxSegments == 3

\* the sequences over S of length 0..n
SeqsUpTo(S, n) == UNION {[1..k -> S] : k \in 0..n}

\* segment texts: empty, blank, and text with a leading space
SegmentTexts == {<<>>, <<SP>>, <<SP, Word("hello")>>}

\* segment lists for the exporter: consecutive two-second segments
SrtInputs ==
    {[i \in DOMAIN texts |-> TranscriptSegment(2 * (i - 1), 2 * i, texts[i])] :
     texts \in SeqsUpTo(SegmentTexts, MaxSegments)}

\* segments for the chunker: the three of test_chunk_by_minutes, one longer
\* than every threshold, and one that overlaps the first
ChunkSegments ==
    {TranscriptSegment(0, 100, <<Word("part1")>>),
     TranscriptSegment(101, 400, <<Word("part2")>>),
     TranscriptSegment(800, 900, <<Word("part3")>>),
     TranscriptSegment(0, 700, <<Word("long")>>),
     TranscriptSegment(100, 300, <<Word("overlap")>>)}

\* thresholds in minutes: none, the test's, the default
ChunkMinutes == {0, 5, 10}

ChunkInputs ==
    {Call("chunk_segments_by_minutes", <<segments, minutes>>) :
     segments \in SeqsUpTo(ChunkSegments, MaxSegments), minutes \in ChunkMinutes}

\* segment end times around the progress marks
SegmentEnds == {100, 120, 130, 250, 500}

\* speech engine outputs whose segment end times do not decrease
ProgressInputs ==
    {Call("transcribe_audio_file",
          <<[language |-> Some("en"),
             segments |-> [i \in DOMAIN ends |->
                              TranscriptSegment(IF i = 1 THEN 0 ELSE ends[i - 1], ends[i],
                                                <<Word("hello")>>)]]>>) :
     ends \in {e \in SeqsUpTo(SegmentEnds, MaxSegments) :
               \A i \in 2..Len(e) : e[i - 1] <= e[i]}}

\* calls of the joiner; segment texts: empty, blank, padded, plain, two words
JoinInputs ==
    {Call("join_segment_text",
          <<[i \in DOMAIN texts |-> TranscriptSegment(2 * (i - 1), 2 * i - 1, texts[i])]>>) :
     texts \in SeqsUpTo({<<>>, <<SP, NL>>, <<SP, Word("hello"), SP>>, <<Word("world")>>,
                         <<Word("a"), SP, Word("b"), NL>>}, MaxSegments)}

\* times in milliseconds for the timestamp formatter: negative, zero, the
\* field boundaries, the spec's 3661.25 s, and times next to whole seconds
SrtTimes ==
    {0 - 1500, 0 - 1, 0, 1, 999, 1000, 1001, 1002, 1024, 2002, 59999, 60000,
     3599999, 3600000, 3661250}

\* calls of the summarizer: the transcript empty, whitespace only or text;
\* segment lists of the chunker's segments and a blank one
SummaryInputs ==
    {Call("summarize_with_map_reduce", <<transcript, segments, outcome>>) :
     transcript \in {<<>>, <<SP, NL>>, <<Word("part1"), SP, Word("part2")>>},
     segments \in SeqsUpTo(ChunkSegments \cup {TranscriptSegment(900, 901, <<SP>>)},
                           MaxSegments),
     outcome \in EngineOutcomes}

\* URLs for the validator. Schemes: the two valid ones, one in capitals, two
\* others. Authorities: the four valid hosts, another site, a valid name in
\* capitals, a valid name as a prefix, a valid name with a port and one used
\* as userinfo. Paths and queries: with and without a video identifier.
UrlInputs ==
    {Call("is_valid_youtube_url", <<Url(scheme, a[1], a[2], a[3], path, query)>>) :
     scheme \in {"https", "http", "HTTPS", "ftp", ""},
     a \in {<<"", host, "">> :
            host \in {"youtube.com", "www.youtube.com", "m.youtube.com", "youtu.be",
                      "example.com", "YouTube.com", "youtube.com.example.com"}}
           \cup {<<"", "youtube.com", "443">>, <<"youtube.com", "example.com", "">>},
     path \in {<<>>, <<"/">>, <<"/", "watch">>, <<"/", "dQw4w9WgXcQ">>,
               <<"/", "playlist">>, <<"/", "shorts", "/">>,
               <<"/", "shorts", "/", "abc">>, <<"/", "live", "/">>,
               <<"/", "live", "/", "abc">>},
     query \in {<<>>, << <<"v", "dQw4w9WgXcQ">> >>, << <<"v", "">> >>,
                << <<"list", "PL1">> >>, << <<"v", "">>, <<"v", "a">> >>}}

CallInputs ==
    {Call("build_srt", <<segments>>) : segments \in SrtInputs}
        \cup ChunkInputs \cup ProgressInputs \cup JoinInputs
        \cup {Call("_format_srt_ts", <<ms>>) : ms \in SrtTimes}
        \cup UrlInputs \cup SummaryInputs
        \cup {Call("download_audio", <<video_url, outcome>>) :
                 video_url \in {"https://youtu.be/lecture", "https://youtu.be/marathon",
                                "https://youtu.be/over", "https://youtu.be/under",
                                "https://youtu.be/zero", "https://youtu.be/stream"},
                 outcome \in DownloadOutcomes}

InitCalls ==
    /\ tasks = <<>>
    /\ results = {}
    /\ tmp = <<>>
    /\ runs = <<>>
    /\ last = NoEvent
    /\ call \in CallInputs
    /\ whisper = NoWhisper

\* the call returns ret
Returns(ret) ==
    /\ call.ret = None
    /\ call' = [call EXCEPT !.ret = Some(ret)]
    /\ UNCHANGED <<tasks, results, tmp, runs, last, whisper>>

ApplyBuildSrt == call.fn = "build_srt" /\ Returns(build_srt(call.args[1]))

ApplyChunk ==
    /\ call.fn = "chunk_segments_by_minutes"
    /\ Returns(chunk_segments_by_minutes(call.args[1], call.args[2]))

ApplyTranscribe ==
    /\ call.fn = "transcribe_audio_file"
    /\ Returns(transcribe_audio_file(call.args[1]))

ApplyJoin ==
    /\ call.fn = "join_segment_text"
    /\ Returns(join_segment_text(call.args[1]))

ApplyFormatTs ==
    /\ call.fn = "_format_srt_ts"
    /\ Returns(format_srt_ts_fields(call.args[1]))

ApplyValidate ==
    /\ call.fn = "is_valid_youtube_url"
    /\ Returns(is_valid_youtube_url(call.args[1]))

ApplySummarize ==
    /\ call.fn = "summarize_with_map_reduce"
    /\ Returns(summarize_with_map_reduce(call.args[1], call.args[2], call.args[3]))

ApplyDownload ==
    /\ call.fn = "download_audio"
    /\ Returns(download_audio(call.args[1], call.args[2]))

NextCalls ==
    \/ ApplyDownload
    \/ ApplyBuildSrt
    \/ ApplyChunk
    \/ ApplyTranscribe
    \/ ApplyJoin
    \/ ApplyFormatTs
    \/ ApplyValidate
    \/ ApplySummarize

SpecCalls == InitCalls /\ [][NextCalls]_vars

-----------------------------------------------------------------------------
(* Claims *)

TaskOf(run) == run.payload.task_id

\* the calls of set_status tried on every terminal task
SetStatusErrors == {None, Some(<<>>), Some(DownloadFailedText)}

\* C1: set_status on a task that is completed or failed, with any requested
\* status and any error argument, leaves the task's status and error text
\* unchanged.
C1_TerminalTaskUnchanged ==
    \A t \in DOMAIN tasks :
        tasks[t].status \in {"completed", "failed"} =>
            \A s \in Statuses, e \in SetStatusErrors :
                LET after == SetStatus(tasks, t, s, e, None, None)[t]
                IN  after.status = tasks[t].status /\ after.error = tasks[t].error

\* C2: once finalize_task has persisted the Result and set completed, the end
\* of its delivery, whatever raised while sending, leaves the task completed.
C2_DeliveryFailureKeepsCompleted ==
    [][\A r \in DOMAIN runs :
          (/\ runs[r].stage = 4
           /\ runs[r].pc = "sending"
           /\ runs'[r].pc # "sending"
           /\ tasks[TaskOf(runs[r])].status = "completed")
          => tasks'[TaskOf(runs[r])].status = "completed"]_vars

\* C3: a task whose status is failed never becomes completed, whatever stage
\* execution or further chain run follows.
C3_FailedNeverCompleted ==
    [][\A t \in DOMAIN tasks :
          tasks[t].status = "failed" => tasks'[t].status # "completed"]_vars

StatusOrder ==
    <<"created", "downloading", "downloaded", "transcribing", "transcribed",
      "summarizing", "completed">>

Rank(status) == CHOOSE i \in 1..Len(StatusOrder) : StatusOrder[i] = status

\* C4: every change of a task's status is to a status strictly later in the
\* order created .. completed, or to failed from a non-terminal status.
C4_StatusOnlyForward ==
    [][\A t \in DOMAIN tasks :
          tasks'[t].status # tasks[t].status =>
              \/ /\ tasks[t].status # "failed"
                 /\ tasks'[t].status # "failed"
                 /\ Rank(tasks[t].status) < Rank(tasks'[t].status)
              \/ /\ tasks'[t].status = "failed"
                 /\ tasks[t].status \notin {"completed", "failed"}]_vars

\* C5: a fault in stage 1, 2 or 3 that is not a rejection fails the run only
\* when the stage's retry budget is used up, whatever the exception's class.
C5_EveryFaultRetried ==
    [][\A r \in DOMAIN runs :
          (/\ runs[r].stage \in 1..3
           /\ runs[r].pc # "failed"
           /\ runs'[r].pc = "failed"
           /\ runs'[r].fault[1].type \notin
                  {"VideoTooLongError", "YouTubeForbiddenError", "YouTubeInfoError"})
          => runs[r].retries = MaxRetries(runs[r].stage)]_vars

\* C6: in one chain run download_audio_task is executed at most 4 times,
\* transcribe_audio_task and summarize_transcript_task at most 3 times each,
\* finalize_task at most once.
C6_ExecutionBounds ==
    \A r \in DOMAIN runs :
        /\ runs[r].stage = 1 => runs[r].execs <= 4
        /\ runs[r].stage \in {2, 3} => runs[r].execs <= 3
        /\ runs[r].stage = 4 => runs[r].execs <= 1

\* C6 witness: one run used all 4 executions of stage 1 and another all 3 of
\* stage 2 or 3, and a run finished finalize.
C6_Witness ==
    /\ \E r \in DOMAIN runs : runs[r].stage = 1 /\ runs[r].execs = 4 /\ runs[r].pc = "failed"
    /\ \E r \in DOMAIN runs : runs[r].stage \in {2, 3} /\ runs[r].execs = 3

C8_Rejected(run) ==
    /\ run.fault # None
    /\ run.fault[1].type \in {"VideoTooLongError", "YouTubeForbiddenError", "YouTubeInfoError"}

C9_Over(tk, t) ==
    /\ t \in DOMAIN tk
    /\ fetch_video_info(tk[t].video_url).duration # None
    /\ fetch_video_info(tk[t].video_url).duration[1] > max_video_minutes * 60

C9_MentionsLimit(text) ==
    \E i \in 2..Len(text) :
        text[i] = Num(max_video_minutes) /\ text[i - 1] = Word(" min). Maximum allowed is ")

\* C9: for a task whose metadata reports a duration over the limit, no run
\* downloads media or invokes ffmpeg, the speech engine or the text engine, a
\* run passes stage 1 only with the skip payload, and the execution that sees
\* the duration leaves the task failed with an error that mentions the limit.
C9_TooLongNeverProcessed ==
    [][\A r \in DOMAIN runs' :
          LET run == runs'[r]
              t == TaskOf(run)
          IN  C9_Over(tasks', t)
              => /\ last'.run = r
                    => last'.engines \cap {"download", "ffmpeg", "speech", "text"} = {}
                 /\ run.stage > 1 => run.payload = [task_id |-> t, skip |-> TRUE]
                 /\ (/\ r \in DOMAIN runs
                     /\ runs[r].fault = None
                     /\ run.fault # None
                     /\ run.fault[1].type = "VideoTooLongError")
                    => /\ tasks'[t].status = "failed"
                       /\ tasks'[t].error = Some(run.fault[1].text)
                       /\ C9_MentionsLimit(run.fault[1].text)]_vars

\* C9 witness: a run of an over-long video fetched the metadata and nothing
\* else, was rejected, and passed the later stages by the skip payload; the
\* task is failed and its error mentions the limit.
C9_Witness ==
    \E r \in DOMAIN runs :
        /\ C9_Over(tasks, TaskOf(runs[r]))
        /\ runs[r].pc = "done"
        /\ last = Event(r)
        /\ runs[r].fault # None /\ runs[r].fault[1].type = "VideoTooLongError"
        /\ tasks[TaskOf(runs[r])].status = "failed"
        /\ tasks[TaskOf(runs[r])].error # None
        /\ C9_MentionsLimit(tasks[TaskOf(runs[r])].error[1])
        /\ TaskOf(runs[r]) \notin DOMAIN tmp

C10_HasSkip(payload) == "skip" \in DOMAIN payload /\ payload.skip = TRUE

\* C10: transcribe_audio_task, summarize_transcript_task and finalize_task
\* called with a payload whose skip is true return that payload and change
\* nothing: no engine call, no notification, no Result, no status change, no
\* file-system change.
C10_SkipForwarded ==
    [][\A r \in DOMAIN runs :
          (/\ runs[r].stage \in 2..4
           /\ runs[r].pc = "queued"
           /\ C10_HasSkip(runs[r].payload)
           /\ runs'[r] # runs[r])
          => /\ runs'[r].payload = runs[r].payload
             /\ IF runs[r].stage = 4
                THEN runs'[r].stage = 4 /\ runs'[r].pc = "done"
                ELSE runs'[r].stage = runs[r].stage + 1 /\ runs'[r].pc = "queued"
             /\ last' = Event(r)
             /\ runs'[r].fault = runs[r].fault
             /\ tasks' = tasks /\ results' = results /\ tmp' = tmp]_vars

\* C10 witness: a run that found its task completed at stage 1 passed the
\* skip payload through stages 2, 3 and 4 and invoked nothing.
C10_Witness ==
    \E r \in DOMAIN runs :
        /\ runs[r].stage = 4 /\ runs[r].pc = "done"
        /\ runs[r].payload = [task_id |-> TaskOf(runs[r]), skip |-> TRUE]
        /\ last = Event(r)
        /\ runs[r].fault = None
        /\ tasks[TaskOf(runs[r])].status = "completed"

Active(run) == run.pc \in {"running", "sending"}

\* the keys the stage before stage n puts into the payload it returns
C11_Produced(stage) ==
    CASE stage = 2 -> {"source_path", "duration_sec"}
      [] stage = 3 -> {"transcript_text", "language", "segments"}
      [] stage = 4 -> {"summary", "outline"}
      [] OTHER -> {}

\* C11: with one chain per task, no two runs belong to the same task, so at
\* most one stage execution of a task is active at a time; and a run is at
\* stage n + 1 only with the payload stage n returned: the skip payload, or
\* one that carries the fields stage n produces.
C11_OneStageAtATime ==
    /\ \A r1, r2 \in DOMAIN runs :
          (r1 # r2 /\ TaskOf(runs[r1]) = TaskOf(runs[r2]))
          => ~(Active(runs[r1]) /\ Active(runs[r2]))
    /\ \A r \in DOMAIN runs :
          (runs[r].stage > 1 /\ runs[r].pc # "done")
          => \/ C10_HasSkip(runs[r].payload)
             \/ C11_Produced(runs[r].stage) \subseteq DOMAIN runs[r].payload

\* C11 witness: stage executions of two different tasks are active at once,
\* one of them in stage 3 after stages 1 and 2 returned.
C11_Witness ==
    \E r1, r2 \in DOMAIN runs :
        /\ TaskOf(runs[r1]) # TaskOf(runs[r2])
        /\ Active(runs[r1]) /\ Active(runs[r2])
        /\ runs[r1].stage = 3
        /\ runs[r2].stage = 1

\* the step is the return of run r's active stage execution
StageReturned(r) ==
    /\ Active(runs[r])
    /\ \/ runs'[r].stage = runs[r].stage + 1 /\ runs'[r].pc = "queued"
       \/ runs'[r].pc = "done"

\* C12: the payload a stage returns for a non-skip payload has every key of
\* the payload it received, with the same value.
C12_PayloadSuperset ==
    [][\A r \in DOMAIN runs :
          (StageReturned(r) /\ ~C10_HasSkip(runs[r].payload))
          => \A k \in DOMAIN runs[r].payload :
                 /\ k \in DOMAIN runs'[r].payload
                 /\ runs'[r].payload[k] = runs[r].payload[k]]_vars

\* C13: every call of upsert_result leaves exactly one Result for the task,
\* holding the arguments of that call, and leaves the Results of other tasks
\* as they were; the same call once more changes nothing.
C13_UpsertOverwrites ==
    [][\A task_id \in DOMAIN tasks, a \in ResultArgs :
          results' = upsert_result(results, task_id, a.transcript_text, a.summary,
                                   a.outline, a.subtitles_srt)
          => /\ GetResult(results', task_id) =
                    {Result(task_id, a.transcript_text, a.summary, a.outline,
                            a.subtitles_srt)}
             /\ Cardinality(GetResult(results', task_id)) = 1
             /\ \A other \in DOMAIN tasks \ {task_id} :
                    GetResult(results', other) = GetResult(results, other)
             /\ upsert_result(results', task_id, a.transcript_text, a.summary,
                              a.outline, a.subtitles_srt) = results']_vars

\* C13 witness: the latest call found a Result and replaced it, and each
\* task has one Result.
C13_Witness ==
    /\ last.engines = {"results.update"}
    /\ \A task_id \in DOMAIN tasks : Cardinality(GetResult(results, task_id)) = 1
    /\ \E row \in results : row.subtitles_srt = None /\ row.summary # <<>>
    /\ \E row \in results : row.subtitles_srt # None /\ row.summary = <<>>

\* C14: a stage executed for a task id without a row invokes no collaborator
\* and posts nothing, ends failed with the not-found error, and leaves both
\* tables as they were.
C14_OrphanStageStops ==
    \A r \in DOMAIN runs :
        (TaskOf(runs[r]) \notin DOMAIN tasks /\ last.run = r)
        => /\ last.engines = {}
           /\ last.posted = <<>> /\ last.dropped = <<>>
           /\ ~Active(runs[r])
              => /\ runs[r].pc = "failed"
                 /\ runs[r].fault = Some(Exc("ValueError", NotFoundText(TaskOf(runs[r]))))
           /\ tasks = TasksCreated(MaxTaskId - 1)
           /\ results = {}

\* the call of fn has returned
CallReturned(fn) == call.fn = fn /\ call.ret # None

\* the numbers that head the blocks of an SRT text, in order
RECURSIVE BlockNumbers(_)
BlockNumbers(srt) ==
    IF Len(srt) = 0 THEN <<>>
    ELSE (IF Head(srt).tok = "num" THEN <<Head(srt).n>> ELSE <<>>)
         \o BlockNumbers(Tail(srt))

\* the segments whose text is not blank
NonBlank(segments) == {i \in DOMAIN segments : Len(Strip(segments[i].text)) # 0}

\* C15: build_srt numbers its blocks 1, 2, ..., k, where k is the number of
\* segments with non-blank text.
C15_BlocksNumberedContiguously ==
    CallReturned("build_srt")
    => LET k == Cardinality(NonBlank(call.args[1]))
       IN  BlockNumbers(call.ret[1]) = [i \in 1..k |-> i]

C16_Segments ==
    <<TranscriptSegment(0, 100, <<Word("part1")>>),
      TranscriptSegment(101, 400, <<Word("part2")>>),
      TranscriptSegment(800, 900, <<Word("part3")>>)>>

\* C16: the segments (0,100,part1), (101,400,part2), (800,900,part3) with a
\* 5-minute threshold chunk into [[part1, part2], [part3]].
C16_ExampleChunks ==
    (CallReturned("chunk_segments_by_minutes") /\ call.args = <<C16_Segments, 5>>)
    => call.ret[1] = << <<C16_Segments[1], C16_Segments[2]>>, <<C16_Segments[3]>> >>

\* the runs of a chunking, concatenated in order
RECURSIVE Flatten(_)
Flatten(chunks) ==
    IF Len(chunks) = 0 THEN <<>> ELSE Head(chunks) \o Flatten(Tail(chunks))

\* C17: the runs chunk_segments_by_minutes returns are non-empty and their
\* concatenation in order is the input list; an empty list yields no run.
C17_ChunksPartitionInput ==
    CallReturned("chunk_segments_by_minutes")
    => LET segments == call.args[1]
           chunks == call.ret[1]
       IN  /\ \A c \in DOMAIN chunks : Len(chunks[c]) > 0
           /\ Flatten(chunks) = segments
           /\ Len(segments) = 0 => chunks = <<>>

\* C17 witness: a list of three segments came back as two runs, one of them
\* of two segments.
C17_Witness ==
    /\ CallReturned("chunk_segments_by_minutes")
    /\ Len(call.args[1]) = 3
    /\ Len(call.ret[1]) = 2
    /\ Len(call.ret[1][2]) = 2
    /\ Flatten(call.ret[1]) = call.args[1]

\* the media time a run spans: end of its last segment - start of its first
Span(run) == run[Len(run)].end - run[1].start

SubtitleFiles(msgs) == {i \in DOMAIN msgs : msgs[i].kind = "subtitles.srt"}

\* C19: when finalize_task has persisted the Result of a payload without a
\* non-blank segment, the Result's subtitle text is null, the files finalize
\* delivers include no subtitle file, and /status of the owner sends none.
C19_NoSubtitlesWithoutText ==
    \A r \in DOMAIN runs :
        LET t == TaskOf(runs[r])
        IN  (/\ runs[r].stage = 4 /\ runs[r].pc = "sending"
             /\ last.run = r
             /\ NonBlank(runs[r].payload.segments) = {})
            => /\ \A row \in GetResult(results, t) : row.subtitles_srt = None
               /\ SubtitleFiles(Deliveries(t, tasks[t].user_id, runs[r].payload)) = {}
               /\ SubtitleFiles(cmd_status(tasks, results, tasks[t].user_id, t)) = {}

\* segment i ends at or after a multiple of 120 seconds that no earlier
\* segment had reached
CrossesNewMark(segments, i) ==
    \E m \in 1..(segments[i].end \div 120) :
        \A j \in 1..(i - 1) : segments[j].end < m * 120

\* C20: with non-decreasing end times, the segments that trigger a progress
\* snapshot are exactly those that reach a new 120-second mark.
C20_SnapshotPerNewMark ==
    CallReturned("transcribe_audio_file")
    => LET segments == call.args[1].segments
           snapshots == call.ret[1].snapshots
       IN  {snapshots[k].segments : k \in DOMAIN snapshots}
               = {i \in DOMAIN segments : CrossesNewMark(segments, i)}

\* C21: when update_state raises while a snapshot is being reported, the
\* transcribe stage still returns a payload with the transcript, the language
\* and the segments, and the task is set to transcribed.
C21_SinkFailureHarmless ==
    [][\A r \in DOMAIN runs :
          (/\ runs[r].stage = 2 /\ runs[r].pc = "running"
           /\ last'.run = r
           /\ "update_state raised" \in last'.engines)
          => /\ StageReturned(r)
             /\ {"transcript_text", "language", "segments"} \subseteq DOMAIN runs'[r].payload
             /\ tasks'[TaskOf(runs[r])].status = "transcribed"]_vars

\* the step is thread t's return from get_whisper_model
WhisperReturned(t) ==
    whisper.th[t].pc \in {"25", "56"} /\ whisper'.th[t].pc = "idle"

\* the step is an exception leaving thread t's call of get_whisper_model
WhisperRaised(t) == whisper'.th[t].raises > whisper.th[t].raises

IsFile(msg) == msg.kind \in {"summary.md", "outline.md", "transcript.md", "subtitles.srt"}

IsDegraded(msg) == msg.kind = "degraded"

\* the file names of the files among msgs, in order
FileKinds(msgs) ==
    LET files == SelectSeq(msgs, IsFile) IN [i \in DOMAIN files |-> files[i].kind]

\* the files a completed task's owner is due, given the stage's payload
C23_Expected(payload) ==
    <<"summary.md", "outline.md", "transcript.md">>
        \o (IF Len(Strip(build_srt(Get(payload, "segments", <<>>)))) # 0
            THEN <<"subtitles.srt">> ELSE <<>>)

RECURSIVE Words(_)
Words(text) ==
    IF Len(text) = 0 THEN <<>>
    ELSE (IF IsSpace(Head(text)) THEN <<>> ELSE <<Head(text)>>) \o Words(Tail(text))

\* the words of the texts of segments, in order
RECURSIVE SegmentWords(_)
SegmentWords(segments) ==
    IF Len(segments) = 0 THEN <<>>
    ELSE Words(Head(segments).text) \o SegmentWords(Tail(segments))

\* the whitespace tokens inside the trimmed texts of segments, and one
\* separator before each non-blank text: the latter never occurs in the
\* result's first item
RECURSIVE InnerSpaces(_)
InnerSpaces(segments) ==
    IF Len(segments) = 0 THEN 0
    ELSE LET text == Strip(Head(segments).text)
         IN  (IF Len(text) = 0 THEN 0 ELSE 1 + Len(text) - Len(Words(text)))
             + InnerSpaces(Tail(segments))

C25_TimestampFields ==
    CallReturned("_format_srt_ts")
    => LET t == call.args[1]
           ts == call.ret[1]
       IN  /\ t >= 0 => ts = [hours |-> t \div 3600000,
                              minutes |-> (t % 3600000) \div 60000,
                              secs |-> (t % 60000) \div 1000,
                              millis |-> t % 1000]
           /\ t < 0 => ts = [hours |-> 0, minutes |-> 0, secs |-> 0, millis |-> 0]
           /\ t = 3661250 => ts = [hours |-> 1, minutes |-> 1, secs |-> 1, millis |-> 250]

C26_ValidHostNames == {"youtube.com", "www.youtube.com", "m.youtube.com", "youtu.be"}

\* C26: is_valid_youtube_url accepts a URL only if its scheme is http or
\* https (in either case of letters) and its host is exactly one of the four
\* valid names; a URL on another host is rejected whatever its path and query.
C26_AcceptsOnlyValidHosts ==
    CallReturned("is_valid_youtube_url")
    => LET url == call.args[1]
       IN  /\ call.ret[1] = TRUE
              => /\ Lower(url.scheme) \in {"http", "https"}
                 /\ url.host \in C26_ValidHostNames
           /\ url.host \notin C26_ValidHostNames => call.ret[1] = FALSE

\* C26 witness: https://www.youtube.com/watch?v=dQw4w9WgXcQ was accepted.
C26_Witness ==
    /\ CallReturned("is_valid_youtube_url")
    /\ call.args[1] = Url("https", "", "www.youtube.com", "", <<"/", "watch">>,
                          << <<"v", "dQw4w9WgXcQ">> >>)
    /\ call.ret[1] = TRUE

\* the URL carries no video identifier
C27_NoVideoId(url) ==
    \/ url.path = <<"/", "watch">>
       /\ \A i \in DOMAIN url.query : ~(url.query[i][1] = "v" /\ url.query[i][2] # "")
    \/ url.host = "youtu.be" /\ url.path \in {<<>>, <<"/">>}
    \/ url.path \in {<<"/", "shorts", "/">>, <<"/", "live", "/">>}

\* C27: is_valid_youtube_url rejects a /watch URL without a non-empty v
\* parameter, a youtu.be URL with an empty path, and a /shorts/ or /live/
\* URL with nothing after the prefix.
C27_RejectsMissingVideoId ==
    (CallReturned("is_valid_youtube_url") /\ C27_NoVideoId(call.args[1]))
    => call.ret[1] = FALSE

\* C28: for an empty or whitespace-only transcript summarize_with_map_reduce
\* returns the two placeholder texts and makes no request to the text engine,
\* whatever the segment list holds and whatever the engine would do.
C28_BlankTranscriptShortCircuits ==
    (/\ CallReturned("summarize_with_map_reduce")
     /\ \A i \in DOMAIN call.args[1] : IsSpace(call.args[1][i]))
    => /\ call.ret[1].raised = None
       /\ call.ret[1].summary = <<Word("No speech detected.")>>
       /\ call.ret[1].outline = <<Word("No lecture outline available.")>>
       /\ call.ret[1].engines = {}
       /\ call.ret[1].prompts = <<>>

\* C28 witness: a call with a whitespace-only transcript, segments that carry
\* text and a failing engine returned the placeholders.
C28_Witness ==
    /\ CallReturned("summarize_with_map_reduce")
    /\ call.args[1] = <<SP, NL>>
    /\ Len(call.args[2]) = MaxSegments
    /\ \A i \in DOMAIN call.args[2] : Len(Strip(call.args[2][i].text)) > 0
    /\ call.args[3] = "RuntimeError"
    /\ call.ret[1].summary = <<Word("No speech detected.")>>
    /\ call.ret[1].prompts = <<>>

C30_MapAnswers(prompts, n) == [i \in 1..n |-> ask_model(prompts[i])]

\* C30: for a non-blank transcript and an engine that answers,
\* summarize_with_map_reduce makes max(1, number of chunks) + 2 requests:
\* the map requests of the chunks in chunk order, each over the joined text
\* of its chunk (one over the whole transcript when there is no segment),
\* then the summary request and the outline request, both over the map
\* answers joined in order by a blank line.
C30_MapThenReduce ==
    (/\ CallReturned("summarize_with_map_reduce")
     /\ \E i \in DOMAIN call.args[1] : ~IsSpace(call.args[1][i])
     /\ call.args[3] = "ok")
    => LET transcript == call.args[1]
           segments == call.args[2]
           chunks == chunk_segments_by_minutes(segments, 10)
           n == IF Len(chunks) > 1 THEN Len(chunks) ELSE 1
           prompts == call.ret[1].prompts
           merged == Join(<<NL, NL>>, C30_MapAnswers(prompts, n))
       IN  /\ Len(prompts) = n + 2
           /\ Len(chunks) = 0 <=> Len(segments) = 0
           /\ \A i \in 1..n :
                 /\ prompts[i].kind = "map"
                 /\ prompts[i].idx = i
                 /\ prompts[i].text = IF Len(segments) = 0 THEN Strip(transcript)
                                      ELSE join_segment_text(chunks[i])
           /\ prompts[n + 1] = Prompt("summary", 0, merged)
           /\ prompts[n + 2] = Prompt("outline", 0, merged)
           /\ call.ret[1].summary = ask_model(prompts[n + 1])
           /\ call.ret[1].outline = ask_model(prompts[n + 2])

\* C30 witness: a call over three segments in two chunks made four requests:
\* two map requests, then the two reductions.
C30_Witness ==
    /\ CallReturned("summarize_with_map_reduce")
    /\ call.args[3] = "ok"
    /\ Len(call.args[2]) = 3
    /\ Len(call.ret[1].prompts) = 4
    /\ call.ret[1].prompts[2].kind = "map"
    /\ call.ret[1].prompts[3].kind = "summary"

\* the step ends an execution of finalize_task by run r on a non-skip payload
FinalizeEnded(r) ==
    /\ runs[r].stage = 4
    /\ runs[r].pc \in {"queued", "sending"}
    /\ runs'[r].pc \in {"done", "failed"}
    /\ ~C10_HasSkip(runs[r].payload)

\* C31: every execution of finalize_task on a non-skip payload ends, whether
\* it returns or raises in persistence, status change, delivery or degraded
\* warning, with the task's temporary directory removed.
C31_FinalizeRemovesTempDir ==
    [][\A r \in DOMAIN runs :
          FinalizeEnded(r) => TaskOf(runs[r]) \notin DOMAIN tmp']_vars

\* C32: no chain run leaves a task in a non-terminal status: an existing task
\* whose chain runs have all ended, returning or failing, has status completed
\* or failed. (Once every run of the task has ended no operation changes the
\* task again, so a state that violates this is one the task stays in forever.)
C32_EndedChainsAreTerminal ==
    \A t \in DOMAIN tasks :
        (/\ \E r \in DOMAIN runs : TaskOf(runs[r]) = t
         /\ \A r \in DOMAIN runs :
               TaskOf(runs[r]) = t => runs[r].pc \in {"done", "failed"})
        => tasks[t].status \in TERMINAL_STATUSES

\* C32, with the database reachable throughout: under fair scheduling an
\* existing task for which a chain has been enqueued eventually has status
\* completed or failed.
C32_ChainsTerminate ==
    \A t \in 1..MaxTaskId :
        (t \in DOMAIN tasks /\ \E r \in DOMAIN runs : TaskOf(runs[r]) = t)
        ~> (t \in DOMAIN tasks /\ tasks[t].status \in TERMINAL_STATUSES)

\* C32 witness: the chain has ended by failing its task after the retries of
\* stage 3 were used up.
C32_Witness ==
    \E r \in DOMAIN runs :
        /\ runs[r].pc = "failed" /\ runs[r].stage = 3
        /\ runs[r].retries = max_retries_summarize
        /\ runs[r].execs = max_retries_summarize + 1
        /\ tasks[TaskOf(runs[r])].status = "failed"

\* C33: in every reachable state a task whose status is completed has a
\* Result row.
C33_CompletedHasResult ==
    \A t \in DOMAIN tasks :
        tasks[t].status = "completed" => GetResult(results, t) # {}

\* C33 witness: finalize_task has persisted a task's Result and set the task
\* completed, and its run is delivering or has returned.
C33_Witness ==
    \E r \in DOMAIN runs :
        /\ runs[r].stage = 4 /\ runs[r].pc \in {"sending", "done"}
        /\ ~IsSkip(runs[r].payload)
        /\ TaskOf(runs[r]) \in DOMAIN tasks
        /\ tasks[TaskOf(runs[r])].status = "completed"
        /\ GetResult(results, TaskOf(runs[r])) # {}

\* C34: a call of set_status on a task that is not completed or failed sets
\* the status passed and exactly those of error, language and duration that
\* were passed non-null; a field passed as None keeps its previous value,
\* and the owner and the URL are kept.
C34_SetStatusFrame ==
    [][call'.fn = "set_status" =>
          LET task_id == call'.args[1]
              before == tasks[task_id]
              after == tasks'[task_id]
              Kept(arg, old) == IF arg # None THEN arg ELSE old
          IN  before.status \notin TERMINAL_STATUSES =>
                  /\ after.status = call'.args[2]
                  /\ after.error = Kept(call'.args[3], before.error)
                  /\ after.language = Kept(call'.args[4], before.language)
                  /\ after.duration_sec = Kept(call'.args[5], before.duration_sec)
                  /\ after.user_id = before.user_id
                  /\ after.video_url = before.video_url]_vars

\* C34 witness: set_status was called with error=None, language=None and
\* duration_sec=None for a non-terminal status, and the task still has its
\* error text, language and duration.
C34_Witness ==
    /\ call.fn = "set_status"
    /\ call.args[2] \notin TERMINAL_STATUSES
    /\ call.args[3] = None /\ call.args[4] = None /\ call.args[5] = None
    /\ tasks[call.args[1]].status = call.args[2]
    /\ tasks[call.args[1]].error = Some(DownloadFailedText)
    /\ tasks[call.args[1]].language = Some("en")
    /\ tasks[call.args[1]].duration_sec = Some(max_video_seconds)

\* the duration the metadata of a URL reports, a missing one counted as 0
C35_Reported(video_url) ==
    LET info == fetch_video_info(video_url)
    IN  IF info.duration = None THEN 0 ELSE info.duration[1]

C35_RaisedTooLong(ret) ==
    ret.raised # None /\ ret.raised[1].type = "VideoTooLongError"

\* C35: a call of download_audio whose metadata fetch succeeded raises
\* VideoTooLongError exactly when the reported duration is strictly greater
\* than max_video_minutes * 60 seconds, and then without any download attempt.
C35_TooLongIffOverLimit ==
    (call.fn = "download_audio" /\ call.ret # None /\ call.args[2] # "info_error") =>
        /\ C35_RaisedTooLong(call.ret[1])
               <=> C35_Reported(call.args[1]) > max_video_minutes * 60
        /\ C35_RaisedTooLong(call.ret[1]) =>
               /\ "download" \notin call.ret[1].engines
               /\ ~call.ret[1].downloaded

\* C35 witness: download_audio returned the file of a video whose reported
\* duration is exactly the limit.
C35_Witness ==
    /\ call.fn = "download_audio" /\ call.ret # None
    /\ C35_Reported(call.args[1]) = max_video_minutes * 60
    /\ call.ret[1].raised = None
    /\ call.ret[1].downloaded
    /\ call.ret[1].duration = max_video_minutes * 60

=============================================================================
